---- MODULE Spec2Model ----
(***************************************************************************)
(* Karina::Value and Karina::ValueData (Source/Value.hxx).                 *)
(*                                                                         *)
(* A Value is a tagged union living in a piece of storage (a slot); a      *)
(* ValueData is a heap object carrying the share counter copyCount_.       *)
(* The model is of a build with assertions enabled: a failed assert()      *)
(* aborts the program, which is recorded in `last` and leaves the memory   *)
(* as it was when the assertion was evaluated; no call follows it.         *)
(*                                                                         *)
(* A program that uses a member the compiler rejects does not build, which *)
(* is recorded in `last` as "ill-formed"; no call follows it. Rejected are *)
(* the factories Make##valueType (`new String(...)`, String having no      *)
(* usable constructor), operator= (`std::forward(other)` without a         *)
(* template argument) and every construction of a ValueData or of a Value  *)
(* from a ValueData pointer: ValueData() and the pointer constructors of   *)
(* Value are private, nothing is a friend, and String, Array, Dictionary   *)
(* and Closure declare a deleted copy constructor and no other. So no      *)
(* program that builds ever holds a ValueData or a Value of a heap kind;   *)
(* copy(), destroy() and the heap-kind branches of the constructors and of *)
(* the destructor are modelled as written and are reached by no call.      *)
(***************************************************************************)
EXTENDS Integers, FiniteSets, Sequences, TLC

\* Number of pieces of storage in which a Value can be constructed.
NumValues == 3
\* Number of distinct heap addresses operator new can hand out.
NumPayloads == 2
\* copyCount_ is an int.
IntMax == 2147483647
IntMin == -IntMax - 1
\* Number of pieces of storage used when the testers and getters are exercised.
NumTested == 2

Slots == 1..NumValues
Payloads == 1..NumPayloads

\* enum class Type
Types == {"Null", "Boolean", "Integer", "FloatingPoint", "String", "Array",
          "Dictionary", "Closure", "Reference"}
HeapKinds == {"String", "Array", "Dictionary", "Closure"}
ScalarKinds == {"Boolean", "Integer", "FloatingPoint"}

\* Arguments tried for Value(bool), Value(unsigned long), Value(double), and
\* the values stored through the pointers the scalar getters return.
BooleanArgs == {0, 1}
IntegerArgs == {42}
FloatingPointArgs == {0}
ScalarArgs(kind) ==
    CASE kind = "Boolean" -> BooleanArgs
      [] kind = "Integer" -> IntegerArgs
      [] kind = "FloatingPoint" -> FloatingPointArgs

\* The union has no active member (Null, or storage holding no Value).
NoData == 0

VARIABLES
    live,        \* live[i]: a Value has been constructed in slot i and not destroyed
    type_,       \* Value::type_
    data,        \* the union: scalar, ValueData pointer or Value pointer
    alloc,       \* alloc[p]: heap address p holds a ValueData (new'ed, not deleted)
    copyCount_,  \* ValueData::copyCount_
    misuse,      \* copy() or destroy() has been invoked on a deleted ValueData
    last,        \* the last call: operation, operands, outcome, returned pointer
    ovf,         \* what the build leaves in an int whose ++ overflowed
    unf          \* what the build leaves in an int whose -- overflowed

mem == <<live, type_, data, alloc, copyCount_, misuse>>
aux == <<ovf, unf>>
vars == <<live, type_, data, alloc, copyCount_, misuse, last, ovf, unf>>

\* The memory as one record, so that a call can be composed of other calls.
Cur == [live |-> live, type |-> type_, data |-> data,
        alloc |-> alloc, cnt |-> copyCount_, misuse |-> misuse]

Becomes(st) ==
    /\ live' = st.live
    /\ type_' = st.type
    /\ data' = st.data
    /\ alloc' = st.alloc
    /\ copyCount_' = st.cnt
    /\ misuse' = st.misuse

\* The ValueData objects a call that leaves the memory as st has deleted.
Deleted(st) == {p \in Payloads : alloc[p] /\ ~st.alloc[p]}

\* A call: the operation, the Value it is made on (or constructs), its argument,
\* "ok", "assert" or "ill-formed", the pointer returned and the ValueData objects deleted.
Call(op, a, b, out, res, del) ==
    [op |-> op, a |-> a, b |-> b, out |-> out, res |-> res, del |-> del]

----
\* ValueData

\* ++copyCount_ and --copyCount_ on an int; signed overflow is undefined
Incr(c) == IF c = IntMax THEN ovf ELSE c + 1
Decr(c) == IF c = IntMin THEN unf ELSE c - 1

\* ValueData::ValueData() at the address operator new returned
ValueData_new(st, p) ==
    [st EXCEPT !.alloc[p] = TRUE, !.cnt[p] = 0]

\* ValueData::copy(); the pointer it returns is `this`, that is p
ValueData_copy(st, p) ==
    IF st.alloc[p]
    THEN [st EXCEPT !.cnt[p] = Incr(@)]
    ELSE [st EXCEPT !.misuse = TRUE]

\* ValueData::destroy()
ValueData_destroy(st, p) ==
    IF ~st.alloc[p]
    THEN [st EXCEPT !.misuse = TRUE]
    ELSE IF st.cnt[p] = 0
         THEN [st EXCEPT !.alloc[p] = FALSE]
         ELSE [st EXCEPT !.cnt[p] = Decr(@)]

----
\* Value

\* Value::Value()
Value_default(st, d) ==
    [st EXCEPT !.live[d] = TRUE, !.type[d] = "Null", !.data[d] = NoData]

\* VALUE_CONSTRUCTOR1: Value(bool), Value(unsigned long), Value(double), Value(Value *)
Value_simple(st, d, kind, x) ==
    [st EXCEPT !.live[d] = TRUE, !.type[d] = kind, !.data[d] = x]

\* VALUE_CONSTRUCTOR2: Value(String *), Value(Array *), Value(Dictionary *), Value(Closure *)
Value_pointer(st, d, kind, p) ==
    [st EXCEPT !.live[d] = TRUE, !.type[d] = kind, !.data[d] = p]

\* Value::Make##valueType(args...): `new String(std::forward<Args>(args)...)`
\* has no constructor of String to call (String declares its copy constructor,
\* deleted, and nothing else), so no instantiation compiles, whatever the
\* factory and its arguments.
Value_Make(st, d, valueType) ==
    <<"ill-formed", st>>

\* Value::Value(const Value &other): the cases that reach no assert
Value_copy(st, d, s) ==
    LET t == st.type[s] IN
    CASE t = "Null" ->
            [st EXCEPT !.live[d] = TRUE, !.type[d] = "Null", !.data[d] = NoData]
      [] t \in ScalarKinds ->
            [st EXCEPT !.live[d] = TRUE, !.type[d] = t, !.data[d] = st.data[s]]
      [] t \in HeapKinds ->
            LET p == st.data[s] IN
            [ValueData_copy(st, p) EXCEPT !.live[d] = TRUE, !.type[d] = t, !.data[d] = p]
      [] OTHER -> st

\* A move constructor that resets the tag of every source, scalars included
Value_move_EmptiesScalars(st, d, s) ==
    LET t == st.type[s] IN
    CASE t = "Null" ->
            [st EXCEPT !.live[d] = TRUE, !.type[d] = "Null", !.data[d] = NoData]
      [] t \in ScalarKinds \cup HeapKinds ->
            [st EXCEPT !.live[d] = TRUE, !.type[d] = t, !.data[d] = st.data[s],
                       !.type[s] = "Null", !.data[s] = NoData]
      [] OTHER -> st

\* Value::Value(Value &&other): the cases that reach no assert
Value_move(st, d, s) ==
    LET t == st.type[s] IN
    CASE t = "Null" ->
            [st EXCEPT !.live[d] = TRUE, !.type[d] = "Null", !.data[d] = NoData]
      [] t \in ScalarKinds ->
            [st EXCEPT !.live[d] = TRUE, !.type[d] = t, !.data[d] = st.data[s]]
      [] t \in HeapKinds ->
            [st EXCEPT !.live[d] = TRUE, !.type[d] = t, !.data[d] = st.data[s],
                       !.type[s] = "Null", !.data[s] = NoData]
      [] OTHER -> st

\* case Type::Reference: assert(false) in both constructors
CtorAsserts(st, s) == st.type[s] = "Reference"

\* A destructor that takes the Value a Reference aliases down with it
Value_dtor_TakesReferent(st, i) ==
    LET st1 == IF st.type[i] \in HeapKinds
               THEN ValueData_destroy(st, st.data[i])
               ELSE st
        js == IF st.type[i] = "Reference" THEN {i, st.data[i]} ELSE {i}
    IN [st1 EXCEPT !.live = [j \in Slots |-> IF j \in js THEN FALSE ELSE @[j]],
                   !.type = [j \in Slots |-> IF j \in js THEN "Null" ELSE @[j]],
                   !.data = [j \in Slots |-> IF j \in js THEN NoData ELSE @[j]]]

\* Value::~Value(); the storage holds no Value afterwards
Value_dtor(st, i) ==
    LET st1 == IF st.type[i] \in HeapKinds
               THEN ValueData_destroy(st, st.data[i])
               ELSE st
    IN [st1 EXCEPT !.live[i] = FALSE, !.type[i] = "Null", !.data[i] = NoData]

\* Value::operator=(T &&other): `std::forward(other)` names no template
\* argument and none can be deduced, so no instantiation compiles, whatever
\* the operands; neither the asserts nor the self-assignment test ever run.
Value_assign(st, a, b, byMove) ==
    <<"ill-formed", st>>

\* What reading reference_->type_ yields: the tag of a live Value, anything
\* when the Value it pointed at has been destroyed.
ReadType(st, j) == IF st.live[j] THEN {st.type[j]} ELSE Types

\* tryDereference that returns `this` whatever the tag
tryDereference_ReturnsThis(st, i, observed) ==
    <<"ok", i>>

\* tryDereference without its assert
tryDereference_NoAssert(st, i, observed) ==
    IF st.type[i] = "Reference"
    THEN <<"ok", st.data[i]>>
    ELSE <<"ok", i>>

\* Value::tryDereference(), observed being what reference_->type_ was read as.
\* The result is <<outcome, returned pointer>>.
tryDereference(st, i, observed) ==
    IF st.type[i] = "Reference"
    THEN IF observed = "Reference"
         THEN <<"assert", 0>>
         ELSE <<"ok", st.data[i]>>
    ELSE <<"ok", i>>

\* VALUE_TYPE_TESTER: the assert of is##valueType, and what it returns
IsAsserts(st, i) == st.type[i] = "Reference"
Is(st, i, valueType) == st.type[i] = valueType

\* The eight is* predicates
Testers == Types \ {"Reference"}

\* The kinds that have a getter (there is no getNull and no getReference)
Getters == Types \ {"Null", "Reference"}

\* Getters that reject a Reference only
GetAsserts_OnlyReference(st, i, valueType) ==
    st.type[i] = "Reference"

\* VALUE_DATA_GETTER1/2: the assert of get##valueType
GetAsserts(st, i, valueType) ==
    st.type[i] # valueType
\* VALUE_DATA_GETTER1: &simpleValueData, the address of the union of slot i
GetSimple(i) == i
\* VALUE_DATA_GETTER2: the pointer held
GetPointer(st, i) == st.data[i]

----
\* Calls

Init ==
    /\ live = [i \in Slots |-> FALSE]
    /\ type_ = [i \in Slots |-> "Null"]
    /\ data = [i \in Slots |-> NoData]
    /\ alloc = [p \in Payloads |-> FALSE]
    /\ copyCount_ = [p \in Payloads |-> 0]
    /\ misuse = FALSE
    /\ last = Call("none", 0, 0, "ok", 0, {})
    /\ ovf = IntMin
    /\ unf = IntMax

\* Value v = Value::MakeString(...) and the other three factories
Make(d, valueType) ==
    /\ last.out = "ok"
    /\ UNCHANGED aux
    /\ ~live[d]
    /\ LET r == Value_Make(Cur, d, valueType) IN
       /\ Becomes(r[2])
       /\ last' = Call("Make" \o valueType, d, 0, r[1], 0, Deleted(r[2]))

\* Value v(new X) for X a String, an Array, a Dictionary or a Closure, and any
\* other construction of a ValueData or call of a pointer constructor of Value
\* from outside the class: there is no constructor of X to call, ValueData()
\* and Value(X pointer) are private, and the only callers inside the class are
\* the factories.
Wrap(d, kind) ==
    /\ last.out = "ok"
    /\ UNCHANGED aux
    /\ ~live[d]
    /\ UNCHANGED mem
    /\ last' = Call("Value" \o kind, d, 0, "ill-formed", 0, {})

\* Value v;
Default(d) ==
    /\ last.out = "ok"
    /\ UNCHANGED aux
    /\ ~live[d]
    /\ LET st == Value_default(Cur, d) IN
       /\ Becomes(st)
       /\ last' = Call("Value", d, 0, "ok", 0, Deleted(st))

\* Value v(x); for a bool, an unsigned long or a double
Scalar(d, kind) ==
    /\ last.out = "ok"
    /\ UNCHANGED aux
    /\ ~live[d]
    /\ \E x \in ScalarArgs(kind) :
          /\ LET st == Value_simple(Cur, d, kind, x) IN
             /\ Becomes(st)
             /\ last' = Call("Value" \o kind, d, x, "ok", 0, Deleted(st))

\* Value r(&v);
Reference(d, v) ==
    /\ last.out = "ok"
    /\ UNCHANGED aux
    /\ ~live[d]
    /\ live[v]
    /\ LET st == Value_simple(Cur, d, "Reference", v) IN
       /\ Becomes(st)
       /\ last' = Call("ValueReference", d, v, "ok", 0, Deleted(st))

\* Value v(other);
CopyConstruct(d, s) ==
    /\ last.out = "ok"
    /\ UNCHANGED aux
    /\ ~live[d]
    /\ live[s]
    /\ IF CtorAsserts(Cur, s)
       THEN /\ UNCHANGED mem
            /\ last' = Call("copy", d, s, "assert", 0, {})
       ELSE LET st == Value_copy(Cur, d, s) IN
            /\ Becomes(st)
            /\ last' = Call("copy", d, s, "ok", 0, Deleted(st))

\* Value v(std::move(other));
MoveConstruct(d, s) ==
    /\ last.out = "ok"
    /\ UNCHANGED aux
    /\ ~live[d]
    /\ live[s]
    /\ IF CtorAsserts(Cur, s)
       THEN /\ UNCHANGED mem
            /\ last' = Call("move", d, s, "assert", 0, {})
       ELSE LET st == Value_move(Cur, d, s) IN
            /\ Becomes(st)
            /\ last' = Call("move", d, s, "ok", 0, Deleted(st))

\* v goes out of scope
Destroy(i) ==
    /\ last.out = "ok"
    /\ UNCHANGED aux
    /\ live[i]
    /\ LET st == Value_dtor(Cur, i) IN
       /\ Becomes(st)
       /\ last' = Call("dtor", i, 0, "ok", 0, Deleted(st))

\* a = b;  and  a = std::move(b);
Assign(a, b, byMove) ==
    /\ last.out = "ok"
    /\ UNCHANGED aux
    /\ live[a]
    /\ live[b]
    /\ LET op == IF byMove THEN "moveAssign" ELSE "copyAssign"
           r == Value_assign(Cur, a, b, byMove)
       IN /\ Becomes(r[2])
          /\ last' = Call(op, a, b, r[1], 0, Deleted(r[2]))

\* v.tryDereference();
TryDereference(i) ==
    /\ last.out = "ok"
    /\ UNCHANGED aux
    /\ live[i]
    /\ \E observed \in (IF type_[i] = "Reference" THEN ReadType(Cur, data[i]) ELSE {"Null"}) :
          LET r == tryDereference(Cur, i, observed) IN
          /\ UNCHANGED mem
          /\ last' = Call("tryDereference", i, 0, r[1], r[2], {})

\* *v.getBoolean() = x;  *v.getInteger() = x;  *v.getFloatingPoint() = x;
Store(i, kind) ==
    /\ last.out = "ok"
    /\ UNCHANGED aux
    /\ live[i]
    /\ IF GetAsserts(Cur, i, kind)
       THEN /\ UNCHANGED mem
            /\ last' = Call("get" \o kind, i, 0, "assert", 0, {})
       ELSE \E x \in ScalarArgs(kind) :
               /\ data' = [data EXCEPT ![GetSimple(i)] = x]
               /\ UNCHANGED <<live, type_, alloc, copyCount_, misuse>>
               /\ last' = Call("get" \o kind, i, x, "ok", GetSimple(i), {})

\* The calls of programs that compile
Next ==
    \/ \E d \in Slots : Default(d)
    \/ \E d \in Slots, k \in ScalarKinds : Scalar(d, k)
    \/ \E d \in Slots, v \in Slots : Reference(d, v)
    \/ \E d \in Slots, s \in Slots : CopyConstruct(d, s)
    \/ \E d \in Slots, s \in Slots : MoveConstruct(d, s)
    \/ \E i \in Slots : Destroy(i)
    \/ \E i \in Slots : TryDereference(i)
    \/ \E i \in Slots, k \in ScalarKinds : Store(i, k)

\* The calls of programs as written, the rejected ones included
NextWritten ==
    \/ \E d \in Slots, k \in HeapKinds : Make(d, k)
    \/ \E d \in Slots, k \in HeapKinds : Wrap(d, k)
    \/ \E d \in Slots : Default(d)
    \/ \E d \in Slots, k \in ScalarKinds : Scalar(d, k)
    \/ \E d \in Slots, v \in Slots : Reference(d, v)
    \/ \E d \in Slots, s \in Slots : CopyConstruct(d, s)
    \/ \E d \in Slots, s \in Slots : MoveConstruct(d, s)
    \/ \E i \in Slots : Destroy(i)
    \/ \E a \in Slots, b \in Slots, byMove \in BOOLEAN : Assign(a, b, byMove)

----
\* The testers and getters, called on Values that were constructed, moved from
\* and destroyed.

\* v.isNull(), v.isBoolean(), ... v.isClosure(); a bool is returned as 0 or 1
Test(i, valueType) ==
    /\ last.out = "ok"
    /\ UNCHANGED aux
    /\ live[i]
    /\ UNCHANGED mem
    /\ IF IsAsserts(Cur, i)
       THEN last' = Call("is" \o valueType, i, 0, "assert", 0, {})
       ELSE last' = Call("is" \o valueType, i, 0, "ok",
                         IF Is(Cur, i, valueType) THEN 1 ELSE 0, {})

\* v.getBoolean(), ... v.getClosure(): the pointer returned, and for a scalar
\* what is read through it
Get(i, valueType) ==
    /\ last.out = "ok"
    /\ UNCHANGED aux
    /\ live[i]
    /\ UNCHANGED mem
    /\ IF GetAsserts(Cur, i, valueType)
       THEN last' = Call("get" \o valueType, i, 0, "assert", 0, {})
       ELSE IF valueType \in ScalarKinds
            THEN last' = Call("get" \o valueType, i, data[GetSimple(i)], "ok",
                              GetSimple(i), {})
            ELSE last' = Call("get" \o valueType, i, 0, "ok", GetPointer(Cur, i), {})

TestedSlots == 1..NumTested

NextAccess ==
    \/ \E d \in TestedSlots : Default(d)
    \/ \E d \in TestedSlots, k \in ScalarKinds : Scalar(d, k)
    \/ \E d \in TestedSlots, v \in TestedSlots : Reference(d, v)
    \/ \E d \in TestedSlots, s \in TestedSlots : MoveConstruct(d, s)
    \/ \E i \in TestedSlots : Destroy(i)
    \/ \E i \in TestedSlots, k \in Testers : Test(i, k)
    \/ \E i \in TestedSlots, k \in Getters : Get(i, k)

----
\* Properties

\* The live Values that own ValueData p
Owners(p) == {i \in Slots : live[i] /\ type_[i] \in HeapKinds /\ data[i] = p}

Assigns == {"copyAssign", "moveAssign"}

\* C3: the Value a factory returns answers true to the is* predicate of the
\* factory's kind and false to the other seven, and is the only owner of a
\* ValueData allocated by the call, whose copyCount_ is 0.
C3_FactoryReturnsItsKind ==
    \A k \in HeapKinds :
        (last.op = "Make" \o k) =>
            LET v == last.a IN
            /\ last.out = "ok"
            /\ live[v]
            /\ ~IsAsserts(Cur, v)
            /\ \A t \in Testers : Is(Cur, v, t) <=> (t = k)
            /\ alloc[GetPointer(Cur, v)]
            /\ Owners(GetPointer(Cur, v)) = {v}
            /\ copyCount_[GetPointer(Cur, v)] = 0

\* C6: copy and move construction from a Null, Boolean, Integer or
\* FloatingPoint Value give the new Value the same tag and an equal scalar and
\* leave the source as it was; a store through the pointer a scalar getter
\* returns changes the scalar of that Value and of no other.
C6_ScalarsAreIndependent ==
    [][ /\ (last'.op \in {"copy", "move"} /\ last'.out = "ok"
              /\ type_[last'.b] \in ScalarKinds \cup {"Null"}) =>
               LET d == last'.a
                   s == last'.b
               IN /\ live'[d] /\ live'[s]
                  /\ type_'[d] = type_[s]
                  /\ data'[d] = data[s]
                  /\ type_'[s] = type_[s]
                  /\ data'[s] = data[s]
        /\ \A k \in ScalarKinds :
              (last'.op = "get" \o k /\ last'.out = "ok") =>
                  /\ type_' = type_
                  /\ data'[last'.a] = last'.b
                  /\ \A j \in Slots \ {last'.a} : data'[j] = data[j]
      ]_vars

\* A move construction has just duplicated the Integer 42, which its source
\* still holds.
C6_Witness ==
    /\ last.op = "move"
    /\ last.out = "ok"
    /\ live[last.a] /\ live[last.b]
    /\ type_[last.a] = "Integer" /\ type_[last.b] = "Integer"
    /\ data[last.a] = 42 /\ data[last.b] = 42

\* C7: the Value a live Reference aliases is never tagged Reference.
C7_NoChainOfReferences ==
    \A i \in Slots :
        (live[i] /\ type_[i] = "Reference" /\ live[data[i]]) =>
            type_[data[i]] # "Reference"

\* Every result v.tryDereference() can have
tryDereferenceResults(st, i) ==
    {tryDereference(st, i, observed) :
        observed \in (IF st.type[i] = "Reference" THEN ReadType(st, st.data[i]) ELSE {"Null"})}

\* C8: tryDereference changes nothing; when it returns, it returns the Value
\* itself for a Value that is not a Reference and the aliased Value for a
\* Reference, and the (live) Value it returns is not a Reference, so that
\* tryDereference on it returns it again.
C8_TryDereferenceIsIdempotent ==
    [][ (last'.op = "tryDereference") =>
            /\ mem' = mem
            /\ (last'.out = "ok") =>
                  LET i == last'.a
                      r == last'.res
                  IN /\ (type_[i] # "Reference") => r = i
                     /\ (type_[i] = "Reference") => r = data[i]
                     /\ live[r] =>
                           /\ type_[r] # "Reference"
                           /\ tryDereferenceResults(Cur, r) = {<<"ok", r>>}
      ]_vars

\* tryDereference has just returned the live Value a Reference aliases.
C8_Witness ==
    /\ last.op = "tryDereference"
    /\ last.out = "ok"
    /\ type_[last.a] = "Reference"
    /\ last.res = data[last.a]
    /\ live[last.res]

\* C9: an assignment a = b between two distinct Values, neither of them a
\* Reference, fails no assertion and does what destroying a
\* and then constructing a from b does: a gets the tag and the payload b had;
\* b is unchanged by a copy and is Null after a move from a heap kind; the
\* ValueData a owned is deleted iff a was its only owner; and every copyCount_
\* changes by the share b's ValueData gains (copy only) less the owner a's
\* ValueData loses.
C9_AssignIsDestroyThenConstruct ==
    [][ (last'.op \in Assigns /\ last'.a # last'.b
            /\ type_[last'.a] # "Reference" /\ type_[last'.b] # "Reference") =>
            LET a == last'.a
                b == last'.b
                byMove == last'.op = "moveAssign"
                Lost(p) == IF type_[a] \in HeapKinds /\ data[a] = p THEN 1 ELSE 0
                Gained(p) == IF ~byMove /\ type_[b] \in HeapKinds /\ data[b] = p THEN 1 ELSE 0
            IN /\ last'.out = "ok"
               /\ live' = live
               /\ type_'[a] = type_[b]
               /\ data'[a] = data[b]
               /\ IF byMove /\ type_[b] \in HeapKinds
                  THEN type_'[b] = "Null"
                  ELSE type_'[b] = type_[b] /\ data'[b] = data[b]
               /\ \A j \in Slots \ {a, b} : type_'[j] = type_[j] /\ data'[j] = data[j]
               /\ ~misuse'
               /\ \A p \in Payloads :
                     IF Owners(p) = {a}
                     THEN ~alloc'[p] /\ p \in last'.del
                     ELSE /\ alloc'[p] = alloc[p]
                          /\ copyCount_'[p] = copyCount_[p] - Lost(p) + Gained(p)
      ]_vars

\* C10: a self-assignment of a Value that is not a Reference changes nothing.
C10_SelfAssignIsNoOp ==
    [][ (last'.op \in Assigns /\ last'.a = last'.b /\ type_[last'.a] # "Reference") =>
            /\ last'.out = "ok"
            /\ last'.del = {}
            /\ mem' = mem
      ]_vars

\* C11: a copy construction or a move construction from a Reference, and an
\* assignment with a Reference on either side, fail an assertion and leave
\* every Value, every allocation and every copyCount_ as they were.
C11_ReferenceIsRejected ==
    [][ /\ (last'.op \in {"copy", "move"} /\ type_[last'.b] = "Reference") =>
               /\ last'.out = "assert"
               /\ last'.del = {}
               /\ mem' = mem
        /\ (last'.op \in Assigns
              /\ (type_[last'.a] = "Reference" \/ type_[last'.b] = "Reference")) =>
               /\ last'.out = "assert"
               /\ last'.del = {}
               /\ mem' = mem
      ]_vars

\* C14: constructing a Reference to a Value, and destroying a Reference, Null,
\* Boolean, Integer or FloatingPoint Value, deletes nothing, changes no
\* copyCount_ and changes no other Value.
C14_ReferenceOwnsNothing ==
    [][ /\ (last'.op = "ValueReference") =>
               /\ type_'[last'.a] = "Reference"
               /\ data'[last'.a] = last'.b
               /\ alloc' = alloc
               /\ copyCount_' = copyCount_
               /\ last'.del = {}
               /\ \A j \in Slots \ {last'.a} :
                     live'[j] = live[j] /\ type_'[j] = type_[j] /\ data'[j] = data[j]
        /\ (last'.op = "dtor" /\ type_[last'.a] \notin HeapKinds) =>
               /\ alloc' = alloc
               /\ copyCount_' = copyCount_
               /\ last'.del = {}
               /\ \A j \in Slots \ {last'.a} :
                     live'[j] = live[j] /\ type_'[j] = type_[j] /\ data'[j] = data[j]
      ]_vars

\* A Reference has just been constructed to a Value that holds the Integer 42.
C14_Witness ==
    /\ last.op = "ValueReference"
    /\ live[last.a] /\ type_[last.a] = "Reference"
    /\ live[last.b] /\ type_[last.b] = "Integer"
    /\ data[last.b] = 42

\* C18: a live Value that is not a Reference does not become one while it
\* stays live, and a live Reference keeps aliasing the same Value; so
\* tryDereference on a Reference to a live Value that is not a Reference fails
\* no assertion and returns that Value.
C18_AliasedValueStaysDereferenceable ==
    [][ /\ \A v \in Slots :
              (live[v] /\ live'[v]) =>
                  /\ (type_[v] # "Reference") => (type_'[v] # "Reference")
                  /\ (type_[v] = "Reference") =>
                        (type_'[v] = "Reference" /\ data'[v] = data[v])
        /\ (last'.op = "tryDereference" /\ type_[last'.a] = "Reference"
              /\ live[data[last'.a]] /\ type_[data[last'.a]] # "Reference") =>
               /\ last'.out = "ok"
               /\ last'.res = data[last'.a]
      ]_vars

\* A new Integer has just been stored, through the pointer getInteger()
\* returned, in a Value that a live Reference aliases.
C18_Witness ==
    /\ last.op = "getInteger"
    /\ last.out = "ok"
    /\ live[last.a] /\ type_[last.a] = "Integer"
    /\ \E r \in Slots : live[r] /\ type_[r] = "Reference" /\ data[r] = last.a


\* C13: a tester called on a Reference fails its assertion; a getter called on
\* a Value whose tag is not the getter's kind (a Reference, a Null and a
\* moved-from Value included) fails its assertion; a Value that is not a
\* Reference answers true to exactly one of the eight testers, the one of its
\* tag, and the getter of that kind returns the stored scalar or pointer. No
\* tester or getter changes a Value or a ValueData.
C13_TestersAndGetters ==
    /\ [](\A i \in Slots :
             (live[i] /\ type_[i] # "Reference") =>
                 /\ ~IsAsserts(Cur, i)
                 /\ Cardinality({t \in Testers : Is(Cur, i, t)}) = 1
                 /\ Is(Cur, i, type_[i]))
    /\ [][ /\ \A t \in Testers :
                 (last'.op = "is" \o t) =>
                     /\ mem' = mem
                     /\ IF type_[last'.a] = "Reference"
                        THEN last'.out = "assert"
                        ELSE /\ last'.out = "ok"
                             /\ last'.res = (IF type_[last'.a] = t THEN 1 ELSE 0)
           /\ \A k \in Getters :
                 (last'.op = "get" \o k) =>
                     /\ mem' = mem
                     /\ IF type_[last'.a] # k
                        THEN last'.out = "assert"
                        ELSE /\ last'.out = "ok"
                             /\ IF k \in ScalarKinds
                                THEN /\ last'.res = last'.a
                                     /\ last'.b = data[last'.a]
                                ELSE last'.res = data[last'.a]
         ]_vars

\* getInteger() has just returned the pointer to the 42 held by a Value
\* constructed from 42.
C13_Witness ==
    /\ last.op = "getInteger"
    /\ last.out = "ok"
    /\ live[last.a] /\ type_[last.a] = "Integer"
    /\ last.res = last.a
    /\ last.b = 42
    /\ data[last.res] = 42


Spec == Init /\ [][Next]_vars
SpecWritten == Init /\ [][NextWritten]_vars
SpecAccess == Init /\ [][NextAccess]_vars

====
